---- MODULE Spec2Model ----
(***************************************************************************)
(* Model of arduino/door_codes.ino: the SC2262 tri-state code receiver.    *)
(*                                                                         *)
(*   findNextSpacer   polls the line until 3 ms of LOW (or the timeout)    *)
(*   readNextCode     reads 12 tri-state symbols, two high pulses each     *)
(*   loop             reads up to resend_count codes, takes the majority   *)
(*                                                                         *)
(* The code length (12), the repetition count (17) and the sample counts   *)
(* of findNextSpacer are scaled down to the bounds below; the thresholds   *)
(* short_min, long_min, the majority threshold 3 and measure_delay keep    *)
(* their source values.                                                    *)
(***************************************************************************)
EXTENDS Integers, Sequences, FiniteSets, TLC

(* ---------------------------------------------------------------- bounds *)
\* number of tri-state symbols of one code (12 in the source, line 88)
CodeLen == 2
\* repetitions read per cycle (resend_count, 17 in the source, line 55)
ResendCount == 5
\* pulses per cycle that deviate from the nominal encoding of the sent code
MaxNoise == 2
\* LOW samples that make a spacer (3000 / 10 = 300 in the source, line 70)
SpacerSamples == 2
\* samples until the resync timeout (50000 / 10 = 5000 in the source, line 70)
TimeoutSamples == 4
\* largest int, in samples (32767 / 10 on a 16-bit int target)
IntMaxSamples == 3

(* ----------------------------------------------------- program constants *)
short_min == 350
long_min == 1200
measure_delay == 10
MajorityThreshold == 3

SpacerDuration == SpacerSamples * measure_delay
ResyncTimeout == TimeoutSamples * measure_delay
IntMax == IntMaxSamples * measure_delay - 1

IntMin == 0 - (IntMax + 1)
\* an int whose last addition overflowed: signed overflow is undefined, so the
\* variable may hold any value of the int range when it is read again
Overflowed == IntMax + 1
\* lines 72, 76: int addition on the target
AddInt(a, b) == IF a = Overflowed \/ a + b > IntMax THEN Overflowed ELSE a + b
\* the values an int can turn out to hold when it is read
IntValues(v) == IF v = Overflowed THEN IntMin .. IntMax ELSE {v}

(* ------------------------------------------------------------ vocabulary *)
Positions == 0 .. (CodeLen - 1)
Attempts == 0 .. (ResendCount - 1)
Symbols == {"0", "1", "F"}
\* "U" is a cell of an uninitialised stack array, "NUL" the terminator '\0'
Chars == Symbols \cup {"X", "NUL", "U"}
UninitFlag == 0 - 1

\* pulse durations the line can present (microseconds; 0 is pulseIn's timeout)
Durations ==
    {0, short_min - 150, short_min, short_min + 150, long_min, long_min + 300}

ShortNominal == short_min + 150
LongNominal == long_min + 300
\* lines 8-13: is pulse k (1 or 2) of tri-state symbol s a long high pulse
LongPulse(s, k) == IF k = 1 THEN s = "1" ELSE s # "0"
\* the transmitter's nominal duration of pulse k of symbol s
Nominal(s, k) == IF LongPulse(s, k) THEN LongNominal ELSE ShortNominal
\* 1 when duration d is not the nominal pulse k of symbol s
Deviation(d, s, k) == IF d = Nominal(s, k) THEN 0 ELSE 1

Codes == [Positions -> Symbols]
\* the code the transmitter repeats while loop() runs: F throughout, from
\* which one deviating pulse per symbol gives any other reading or a failure
SentCodes == {[j \in Positions |-> "F"]}
UninitBuf == [j \in 0 .. CodeLen |-> "U"]

VARIABLES
    pc,           \* control position
    codes,        \* loop: char codes[resend_count][13]
    valid,        \* loop: char valid[resend_count]
    majority,     \* loop: unsigned char majority[12][3]
    result,       \* loop: char result[13]
    res,          \* loop: int res
    num_success,  \* loop: int num_success
    loop_i,       \* loop: the index i of its for loops
    read_i,       \* readNextCode: int i
    first,        \* readNextCode: unsigned long first
    second,       \* readNextCode: unsigned long second
    ret,          \* readNextCode: the value returned
    time,         \* findNextSpacer: int time
    total_time,   \* findNextSpacer: int total_time
    sent,         \* environment: the code the transmitter repeats
    noise,        \* environment: deviating pulses still allowed
    line,         \* environment: high pulses already on their way
    calls,        \* history: readNextCode invocations of this cycle
    emitted,      \* history: this cycle printed a result
    spacerCalls,  \* history: findNextSpacer invocations of this read
    spacerDone,   \* history: findNextSpacer returned in this read
    failKind,     \* history: "first", "second" or "pair"
    outcome,      \* history: what the last symbol position decoded to
    clean,        \* history: the pulses of this read encode sent so far
    uninit_read,  \* history: an uninitialised cell has been read
    samples,      \* history: samples findNextSpacer has taken in this call
    lowRun,       \* history: LOW samples in a row up to the last sample
    quieted,      \* history: this cycle held the quiet period
    pulses        \* history: pulseIn calls of this read

loopVars == <<codes, valid, majority, result, res, num_success, loop_i>>
readVars == <<read_i, first, second, ret>>
spacerVars == <<time, total_time>>
envVars == <<sent, noise, line>>
cycleHist == <<calls, emitted, uninit_read>>
quietHist == <<quieted>>
pulseHist == <<pulses>>
readHist == <<spacerCalls, spacerDone, failKind, outcome, clean>>
spacerHist == <<samples, lowRun>>
vars ==
    <<pc, loopVars, readVars, spacerVars, envVars, cycleHist, readHist,
      spacerHist, quietHist, pulseHist>>

(* ------------------------------------------------------- readNextCode *)
\* a check that only knows the timeout value, and one that lets all pass
NoPulseOnlyTimeout(d) == d = 0
NoPulseNever(d) == FALSE

\* line 95 / 113: no pulse, or shorter than a short pulse
NoPulse(d) == d = 0 \/ d < short_min

\* resynchronising after every pulse failure, and only from the third symbol on
ResyncAlways(i) == i >= 0
ResyncFromThird(i) == i > 1

\* line 99 / 116: a pulse failure resynchronises unless it is the first symbol
ResyncAfterPulseFail(i) == i >= 1

\* a decoder that takes the long pulse of F to be the first one
DecodeFirstLong(fst, snd) ==
    IF fst > long_min /\ snd > long_min THEN "1"
    ELSE IF fst > long_min THEN "F"
    ELSE IF fst < long_min /\ snd < long_min THEN "0"
    ELSE "X"

\* lines 130-141: the character stored for two pulses that are both present
Decode(fst, snd) ==
    IF fst > long_min /\ snd > long_min THEN "1"
    ELSE IF snd > long_min THEN "F"
    ELSE IF fst < long_min /\ snd < long_min THEN "0"
    ELSE "X"

\* a read that goes on after a long-short pair
PairInvalidNever(c) == FALSE

\* lines 141-145: the pair was long-short, the read is given up
PairInvalid(c) == c = "X"

\* duration d is an encoding of pulse k of symbol s, by the pulse lengths as
\* specified: a short pulse lasts at least short_min and less than long_min,
\* a long pulse at least long_min
IsShort(d) == d # 0 /\ d >= short_min /\ d < long_min
IsLong(d) == d # 0 /\ d >= long_min
Encodes(d, s, k) == IF LongPulse(s, k) THEN IsLong(d) ELSE IsShort(d)

\* lines 91, 111: pulseIn(pin, HIGH) returns d, the duration of the next high
\* pulse (0 when none comes): the pulse already on its way, or else any
\* pulse the noise budget allows at pulse k of the symbol being sent
PulseIn(d, k) ==
    /\ pulses' = pulses + 1
    /\ IF line # <<>>
       THEN /\ d = Head(line)
            /\ line' = Tail(line)
            /\ noise' = noise
       ELSE /\ Deviation(d, sent[read_i], k) <= noise
            /\ noise' = noise - Deviation(d, sent[read_i], k)
            /\ line' = line

\* lines 88-108: loop test, pulseIn for the first pulse, its check
ReadFirst ==
    /\ pc = "read_first"
    /\ read_i < CodeLen
    /\ \E d \in Durations :
        /\ PulseIn(d, 1)
        /\ first' = d
        /\ clean' = (clean /\ Encodes(d, sent[read_i], 1))
        /\ IF NoPulse(d)
           THEN /\ outcome' = "INVALID"
                /\ failKind' = "first"
                /\ IF ResyncAfterPulseFail(read_i)
                   THEN pc' = "spacer_call" /\ ret' = ret
                   ELSE pc' = "ret" /\ ret' = 0
           ELSE /\ outcome' = "NA"
                /\ pc' = "read_second"
                /\ UNCHANGED <<failKind, ret>>
    /\ UNCHANGED <<loopVars, read_i, second, spacerVars, sent, cycleHist,
                   spacerCalls, spacerDone, spacerHist, quietHist>>

\* lines 111-146: pulseIn for the second pulse, its check, the decoding
ReadSecond ==
    /\ pc = "read_second"
    /\ \E d \in Durations :
        /\ PulseIn(d, 2)
        /\ second' = d
        /\ clean' = (clean /\ Encodes(d, sent[read_i], 2))
        /\ IF NoPulse(d)
           THEN /\ outcome' = "INVALID"
                /\ failKind' = "second"
                /\ IF ResyncAfterPulseFail(read_i)
                   THEN pc' = "spacer_call" /\ ret' = ret
                   ELSE pc' = "ret" /\ ret' = 0
                /\ UNCHANGED <<codes, read_i>>
           ELSE IF PairInvalid(Decode(first, d))
           THEN /\ codes' = [codes EXCEPT ![loop_i][read_i] = "X",
                                          ![loop_i][read_i + 1] = "NUL"]
                /\ outcome' = "INVALID"
                /\ failKind' = "pair"
                /\ pc' = "spacer_call"
                /\ UNCHANGED <<read_i, ret>>
           ELSE /\ codes' = [codes EXCEPT ![loop_i][read_i] = Decode(first, d)]
                /\ outcome' = Decode(first, d)
                /\ read_i' = read_i + 1
                /\ pc' = "read_first"
                /\ UNCHANGED <<failKind, ret>>
    /\ UNCHANGED <<valid, majority, result, res, num_success, loop_i, first,
                   spacerVars, sent, cycleHist, spacerCalls, spacerDone,
                   spacerHist, quietHist>>

\* lines 88, 151-154: the loop is over, skip the trailing pulse, return 1
ReadEnd ==
    /\ pc = "read_first"
    /\ read_i >= CodeLen
    /\ codes' = [codes EXCEPT ![loop_i][CodeLen] = "NUL"]
    /\ ret' = 1
    /\ pc' = "ret"
    /\ UNCHANGED <<spacerHist, quietHist, pulseHist>>
    /\ UNCHANGED <<valid, majority, result, res, num_success, loop_i, read_i,
                   first, second, spacerVars, envVars, cycleHist, readHist>>

(* ----------------------------------------------------- findNextSpacer *)
\* the sample counts the history keeps apart: it stops counting one past
\* the timeout
SampleCap == TimeoutSamples + 1
CountSample(n) == IF n < SampleCap THEN n + 1 ELSE n

\* line 70: the condition of the sampling loop, for the values the two ints
\* hold when they are read
SpacerLoopCond(t, tt) == t < SpacerDuration /\ tt < ResyncTimeout
\* the outcomes the loop test can have in the current state
LoopTests ==
    {SpacerLoopCond(t, tt) : t \in IntValues(time), tt \in IntValues(total_time)}

\* a low-duration counter that a HIGH sample leaves as it is
NextTimeNoReset(level, t) ==
    IF level = "LOW" THEN AddInt(t, measure_delay) ELSE t

\* lines 71-75: the low-duration counter after one sample of the line
NextTime(level, t) == IF level = "LOW" THEN AddInt(t, measure_delay) ELSE 0

\* lines 65-69: the call from readNextCode (lines 105, 122, 143)
FindNextSpacer ==
    /\ pc = "spacer_call"
    /\ time' = 0
    /\ total_time' = 0
    /\ spacerCalls' = spacerCalls + 1
    /\ samples' = 0
    /\ lowRun' = 0
    /\ pc' = "spacer_loop"
    \* the pulses of the failed symbol have passed, and readNextCode does not
    \* read first and second again on this path
    /\ line' = <<>>
    /\ first' = 0
    /\ second' = 0
    /\ outcome' = "NA"
    \* the read is given up: its pulses are no longer compared with sent
    /\ clean' = FALSE
    /\ UNCHANGED <<loopVars, read_i, ret, sent, noise, cycleHist, spacerDone,
                   failKind, quietHist, pulseHist>>

\* lines 70-77: the loop test holds; one sample of the line
SpacerSample ==
    /\ pc = "spacer_loop"
    /\ TRUE \in LoopTests
    /\ \E level \in {"LOW", "HIGH"} :
        /\ time' = NextTime(level, time)
        /\ lowRun' = IF level = "LOW" THEN lowRun + 1 ELSE 0
    /\ total_time' = AddInt(total_time, measure_delay)
    /\ samples' = CountSample(samples)
    /\ UNCHANGED <<pc, loopVars, readVars, envVars, cycleHist, readHist,
                   quietHist, pulseHist>>

\* lines 70, 78-79 and the return 0 that follows every call (107, 124, 144)
SpacerReturn ==
    /\ pc = "spacer_loop"
    /\ FALSE \in LoopTests
    /\ spacerDone' = TRUE
    /\ time' = 0
    /\ total_time' = 0
    /\ ret' = 0
    /\ pc' = "ret"
    /\ UNCHANGED <<loopVars, read_i, first, second, envVars, cycleHist,
                   spacerCalls, failKind, outcome, clean, spacerHist,
                   quietHist, pulseHist>>

ReadActions ==
    \/ ReadFirst
    \/ ReadSecond
    \/ ReadEnd
    \/ FindNextSpacer
    \/ SpacerSample
    \/ SpacerReturn

(* ---------------------------------------------------------------- loop *)
\* a reading loop without early exit, and one that stops at any failed read
EarlyExitNever(ns, r) == FALSE
EarlyExitOnFail(ns, r) == r = 0

\* line 181: the early exit of the reading loop
EarlyExit(ns, r) == ns = 0

\* a threshold that is not strict, and a vote taken whatever was read
EnoughCodesAtLeast(ns) == ns >= MajorityThreshold
EnoughCodesAlways(ns) == TRUE

\* line 187: enough codes were read to take the majority
EnoughCodes(ns) == ns > MajorityThreshold

\* a tally that counts every symbol twice
IncByteTwice(n) == (n + 2) % 256

\* line 202-204: majority is unsigned char
IncByte(n) == (n + 1) % 256

\* a tally that ignores the validity flag
CountedAlways(v) == TRUE

\* lines 193, 202-204: which valid attempts count, and for which column
Counted(v) == v # 0
Column(c) == IF c = "0" THEN 0 ELSE IF c = "1" THEN 1 ELSE IF c = "F" THEN 2 ELSE 3

\* a vote in which ONE wins its tie with F
WinnerTieToOne(m) ==
    IF m[0] > m[1] /\ m[0] > m[2] THEN "0"
    ELSE IF m[1] >= m[2] THEN "1"
    ELSE "F"

\* a vote that compares ZERO with ONE only
WinnerZeroOverOne(m) ==
    IF m[0] > m[1] THEN "0"
    ELSE IF m[1] > m[2] THEN "1"
    ELSE "F"

\* lines 212-218: the symbol chosen from the three counts of a position
Winner(m) ==
    IF m[0] > m[1] /\ m[0] > m[2] THEN "0"
    ELSE IF m[1] > m[2] THEN "1"
    ELSE "F"

\* the values an uninitialised cell can turn out to hold when it is read
FlagValues(v) == IF v = UninitFlag THEN {0, 1} ELSE {v}
CharValues(c) == IF c = "U" THEN Symbols \cup {"X"} ELSE {c}
\* the rows of characters the buffer b can turn out to hold
RowValues(b) ==
    {row \in [Positions -> Chars \ {"U"}] :
        \A j \in Positions : row[j] \in CharValues(b[j])}

\* lines 157-176: loop() is entered; its arrays are fresh stack memory and
\* only majority is cleared
LoopStart ==
    /\ pc = "loop"
    /\ codes' = [a \in Attempts |-> UninitBuf]
    /\ valid' = [a \in Attempts |-> UninitFlag]
    /\ majority' = [j \in Positions |-> [k \in 0 .. 2 |-> 0]]
    /\ result' = UninitBuf
    /\ res' = 0
    /\ num_success' = 0
    /\ loop_i' = 0
    /\ noise' = MaxNoise
    /\ calls' = 0
    /\ emitted' = FALSE
    /\ pc' = "for"
    /\ quieted' = FALSE
    /\ UNCHANGED <<spacerHist, pulseHist>>
    /\ UNCHANGED <<readVars, spacerVars, sent, line, uninit_read, readHist>>

\* lines 177-178: the loop test and the call readNextCode(codes[i])
CallRead ==
    /\ pc = "for"
    /\ loop_i < ResendCount
    /\ read_i' = 0
    /\ calls' = calls + 1
    /\ pc' = "read_first"
    /\ UNCHANGED <<spacerHist, quietHist, pulseHist>>
    /\ UNCHANGED <<loopVars, first, second, ret, spacerVars, envVars, emitted,
                   uninit_read, readHist>>

\* lines 178-183: the result of the call is recorded; early exit
AfterRead ==
    /\ pc = "ret"
    /\ res' = ret
    /\ num_success' = num_success + ret
    /\ valid' = [valid EXCEPT ![loop_i] = ret]
    /\ IF EarlyExit(num_success + ret, ret)
       THEN pc' = "check" /\ loop_i' = loop_i
       ELSE pc' = "for" /\ loop_i' = loop_i + 1
    \* the frame of readNextCode is gone
    /\ read_i' = 0
    /\ first' = 0
    /\ second' = 0
    /\ line' = <<>>
    /\ spacerCalls' = 0
    /\ spacerDone' = FALSE
    /\ failKind' = "none"
    /\ outcome' = "NA"
    /\ clean' = TRUE
    /\ ret' = 0
    /\ samples' = 0
    /\ lowRun' = 0
    /\ pulses' = 0
    /\ UNCHANGED <<codes, majority, result, spacerVars, sent, noise, cycleHist,
                   quietHist>>

\* line 177: the reading loop ends after resend_count reads
ForExit ==
    /\ pc = "for"
    /\ loop_i >= ResendCount
    /\ pc' = "check"
    /\ UNCHANGED <<spacerHist, quietHist, pulseHist>>
    /\ UNCHANGED <<loopVars, readVars, spacerVars, envVars, cycleHist, readHist>>

\* a delay(1250) placed after the if block instead of inside it
AfterCheckQuietAlways(enough) == IF enough THEN "tally" ELSE "quiet"

\* lines 187, 227: where control goes from the test of line 187; the block
\* that ends with delay(1250) is skipped as a whole
AfterCheck(enough) == IF enough THEN "tally" ELSE "loop_end"

\* line 187: the majority is taken only with more than 3 successes
Check ==
    /\ pc = "check"
    /\ pc' = AfterCheck(EnoughCodes(num_success))
    /\ loop_i' = IF EnoughCodes(num_success) THEN 0 ELSE loop_i
    /\ UNCHANGED <<spacerHist, quietHist, pulseHist>>
    /\ UNCHANGED <<codes, valid, majority, result, res, num_success, readVars,
                   spacerVars, envVars, cycleHist, readHist>>

\* lines 192-206: one attempt is printed and, when valid, added to the counts
TallyRow ==
    /\ pc = "tally"
    /\ loop_i < ResendCount
    /\ \E v \in FlagValues(valid[loop_i]) :
       \E row \in RowValues(codes[loop_i]) :
        /\ IF Counted(v)
           THEN /\ majority' =
                    [j \in Positions |->
                        [k \in 0 .. 2 |->
                            IF Column(row[j]) = k
                            THEN IncByte(majority[j][k]) ELSE majority[j][k]]]
                /\ uninit_read' =
                    (uninit_read \/ valid[loop_i] = UninitFlag
                        \/ \E j \in Positions : codes[loop_i][j] = "U")
           ELSE /\ majority' = majority
                /\ uninit_read' = (uninit_read \/ valid[loop_i] = UninitFlag)
    /\ loop_i' = loop_i + 1
    /\ UNCHANGED <<spacerHist, quietHist, pulseHist>>
    /\ UNCHANGED <<pc, codes, valid, result, res, num_success, readVars,
                   spacerVars, envVars, calls, emitted, readHist>>

\* lines 192, 211-220: the counts are complete; the majority of each position
Vote ==
    /\ pc = "tally"
    /\ loop_i >= ResendCount
    /\ result' = [j \in 0 .. CodeLen |->
                    IF j = CodeLen THEN "NUL" ELSE Winner(majority[j])]
    /\ pc' = "emit"
    /\ UNCHANGED <<spacerHist, quietHist, pulseHist>>
    /\ UNCHANGED <<codes, valid, majority, res, num_success, loop_i, readVars,
                   spacerVars, envVars, cycleHist, readHist>>

\* lines 221-222: the result is printed
Emit ==
    /\ pc = "emit"
    /\ emitted' = TRUE
    /\ pc' = "quiet"
    /\ UNCHANGED <<spacerHist, quietHist, pulseHist>>
    /\ UNCHANGED <<loopVars, readVars, spacerVars, envVars, calls, uninit_read,
                   readHist>>

\* line 226: delay(1250)
QuietPeriod ==
    /\ pc = "quiet"
    /\ pc' = "loop_end"
    /\ quieted' = TRUE
    /\ UNCHANGED <<spacerHist, pulseHist>>
    /\ UNCHANGED <<loopVars, readVars, spacerVars, envVars, cycleHist, readHist>>

\* line 228: loop() returns and is called again
LoopReturn ==
    /\ pc = "loop_end"
    /\ pc' = "loop"
    /\ UNCHANGED <<spacerHist, quietHist, pulseHist>>
    /\ UNCHANGED <<loopVars, readVars, spacerVars, envVars, cycleHist, readHist>>

VoteActions ==
    \/ Check
    \/ TallyRow
    \/ Vote
    \/ Emit
    \/ QuietPeriod

(* ------------------------------------------------------ the whole program *)
\* after setup(): loop() is about to be called for the first time
Init ==
    /\ pc = "loop"
    /\ codes = [a \in Attempts |-> UninitBuf]
    /\ valid = [a \in Attempts |-> UninitFlag]
    /\ majority = [j \in Positions |-> [k \in 0 .. 2 |-> 0]]
    /\ result = UninitBuf
    /\ res = 0
    /\ num_success = 0
    /\ loop_i = 0
    /\ read_i = 0
    /\ first = 0
    /\ second = 0
    /\ ret = 0
    /\ time = 0
    /\ total_time = 0
    /\ sent \in SentCodes
    /\ noise = MaxNoise
    /\ line = <<>>
    /\ calls = 0
    /\ emitted = FALSE
    /\ uninit_read = FALSE
    /\ spacerCalls = 0
    /\ spacerDone = FALSE
    /\ failKind = "none"
    /\ outcome = "NA"
    /\ clean = TRUE
    /\ samples = 0
    /\ lowRun = 0
    /\ quieted = FALSE
    /\ pulses = 0

Next ==
    \/ LoopStart
    \/ CallRead
    \/ ReadFirst
    \/ ReadSecond
    \/ ReadEnd
    \/ FindNextSpacer
    \/ SpacerSample
    \/ SpacerReturn
    \/ AfterRead
    \/ ForExit
    \/ Check
    \/ TallyRow
    \/ Vote
    \/ Emit
    \/ QuietPeriod
    \/ LoopReturn

Spec == Init /\ [][Next]_vars

\* the processor never stops: whenever the program has a next step that
\* changes its state, it takes one
SpecLive == Spec /\ WF_vars(Next)

(* --------------------------------------------------- the vote of loop() *)
\* the symbol j places after s in the order 0, 1, F
Rot(s, j) ==
    LET n == (Column(s) + j) % 3
    IN IF n = 0 THEN "0" ELSE IF n = 1 THEN "1" ELSE "F"

\* loop() at line 187 after a full reading loop: every attempt has its flag,
\* a valid attempt holds a complete code, a failed one the symbol it read
\* before a long-short pair stopped it at the second position
InitVote ==
    /\ pc = "check"
    /\ \E col \in [Attempts -> Symbols] :
       \E v \in [Attempts -> {0, 1}] :
        /\ v[0] = 1
        /\ valid = v
        /\ codes =
            [a \in Attempts |->
                [j \in 0 .. CodeLen |->
                    IF v[a] = 1
                    THEN (IF j = CodeLen THEN "NUL" ELSE Rot(col[a], j))
                    ELSE (IF j = 0 THEN col[a]
                          ELSE IF j = 1 THEN "X"
                          ELSE IF j = 2 THEN "NUL" ELSE "U")]]
        /\ num_success = Cardinality({a \in Attempts : v[a] = 1})
        /\ res = v[ResendCount - 1]
    /\ majority = [j \in Positions |-> [k \in 0 .. 2 |-> 0]]
    /\ result = UninitBuf
    /\ loop_i = ResendCount
    /\ read_i = 0
    /\ first = 0
    /\ second = 0
    /\ ret = 0
    /\ time = 0
    /\ total_time = 0
    /\ sent \in SentCodes
    /\ noise = 0
    /\ line = <<>>
    /\ calls = ResendCount
    /\ emitted = FALSE
    /\ uninit_read = FALSE
    /\ spacerCalls = 0
    /\ spacerDone = FALSE
    /\ failKind = "none"
    /\ outcome = "NA"
    /\ clean = TRUE
    /\ samples = 0
    /\ lowRun = 0
    /\ quieted = FALSE
    /\ pulses = 0

SpecVote == InitVote /\ [][VoteActions]_vars

(* ------------------------------------------- one call of readNextCode *)
\* readNextCode entered with an uninitialised buffer; the line presents any
\* pulses, and sent is the code the stream is compared with
InitRead ==
    /\ pc = "read_first"
    /\ codes = [a \in Attempts |-> UninitBuf]
    /\ valid = [a \in Attempts |-> UninitFlag]
    /\ majority = [j \in Positions |-> [k \in 0 .. 2 |-> 0]]
    /\ result = UninitBuf
    /\ res = 0
    /\ num_success = 0
    /\ loop_i = 0
    /\ read_i = 0
    /\ first = 0
    /\ second = 0
    /\ ret = 0
    /\ time = 0
    /\ total_time = 0
    /\ sent \in Codes
    /\ noise = 2 * CodeLen
    /\ line \in {<<>>} \cup {<<a, b>> : a, b \in Durations}
    /\ calls = 1
    /\ emitted = FALSE
    /\ uninit_read = FALSE
    /\ spacerCalls = 0
    /\ spacerDone = FALSE
    /\ failKind = "none"
    /\ outcome = "NA"
    /\ clean = TRUE
    /\ samples = 0
    /\ lowRun = 0
    /\ quieted = FALSE
    /\ pulses = 0

SpecRead == InitRead /\ [][ReadActions]_vars

(* ================================================================ claims *)
\* the buffer readNextCode was given
buf == codes[loop_i]
\* readNextCode has returned 0; read_i is the symbol position it failed at
ReadFailed == pc = "ret" /\ ret = 0
\* a symbol position has just been processed
Processed == outcome # "NA"

\* C1 (as claimed): for every code sent, when every pulse presented to
\* readNextCode encodes sent (short = at least short_min and below long_min,
\* long = at least long_min), the read does not fail and it returns 1 with the
\* buffer holding exactly sent at positions 0 .. CodeLen - 1.
C1_RoundTrip ==
    (clean /\ pc \in {"ret", "spacer_call"})
        => (pc = "ret" /\ ret = 1 /\ \A j \in Positions : buf[j] = sent[j])

\* the classifier and the decoder as specified
classify(d) ==
    IF d = 0 \/ d < short_min THEN "NONE"
    ELSE IF d >= long_min THEN "LONG"
    ELSE "SHORT"
decode(f, s) ==
    IF classify(f) = "NONE" \/ classify(s) = "NONE" THEN "INVALID"
    ELSE IF classify(f) = "LONG" /\ classify(s) = "LONG" THEN "1"
    ELSE IF classify(s) = "LONG" THEN "F"
    ELSE IF classify(f) = "SHORT" /\ classify(s) = "SHORT" THEN "0"
    ELSE "INVALID"

\* C2 (as claimed): at every symbol position the outcome of readNextCode for
\* the measured durations (first, second) is the specified decoder applied to
\* the specified classifier, the boundaries short_min and long_min included
\* (when the first pulse is NONE the outcome is INVALID whatever second holds).
C2_DecoderOfClassifier == Processed => outcome = decode(first, second)

\* the pair of durations (f, s) was presented at the symbol position just
\* processed: both were measured, or f was measured and failed while s was
\* the pulse that followed it on the line
Presented(f, s) ==
    /\ Processed
    /\ first = f
    /\ IF failKind = "first" THEN line # <<>> /\ Head(line) = s ELSE second = s

\* C3 (as claimed): with short_min = 350 and long_min = 1200, the pairs
\* (1500, 1500), (200, 1500), (200, 200), (1500, 200) decode to ONE, F, ZERO,
\* INVALID, and a first duration 0 decodes to INVALID.
C3_LiteralPairsAsClaimed ==
    /\ Presented(1500, 1500) => outcome = "1"
    /\ Presented(200, 1500) => outcome = "F"
    /\ Presented(200, 200) => outcome = "0"
    /\ Presented(1500, 200) => outcome = "INVALID"
    /\ (Processed /\ first = 0) => outcome = "INVALID"

\* C3 (amended): 200 is below short_min, so (200, 1500) and (200, 200) decode
\* to INVALID like (1500, 200) and (0, x); (1500, 1500) decodes to ONE, and
\* with a short pulse of 500 the pairs (500, 1500) and (500, 500) decode to F
\* and ZERO.
C3_LiteralPairs ==
    /\ Presented(1500, 1500) => outcome = "1"
    /\ Presented(200, 1500) => outcome = "INVALID"
    /\ Presented(200, 200) => outcome = "INVALID"
    /\ Presented(1500, 200) => outcome = "INVALID"
    /\ (Processed /\ first = 0) => outcome = "INVALID"
    /\ Presented(500, 1500) => outcome = "F"
    /\ Presented(500, 500) => outcome = "0"
C3_Witness == Presented(200, 1500) /\ outcome = "INVALID" /\ read_i = 0

\* C4 (as claimed): a read that fails at symbol position 0 returns without
\* having called findNextSpacer, whatever the kind of failure.
C4_NoResyncAtFirstSymbol == (ReadFailed /\ read_i = 0) => spacerCalls = 0

\* C4 (amended): a read that fails at symbol position 0 because the first or
\* the second pulse is missing or too short returns without calling
\* findNextSpacer; one that fails there on a long-short pair calls
\* findNextSpacer once, and returns after it.
C4_ResyncAtFirstSymbol ==
    /\ (pc \in {"spacer_call", "spacer_loop"} /\ read_i = 0) => failKind = "pair"
    /\ (ReadFailed /\ read_i = 0 /\ failKind \in {"first", "second"})
            => (spacerCalls = 0 /\ ~spacerDone)
    /\ (ReadFailed /\ read_i = 0 /\ failKind = "pair")
            => (spacerCalls = 1 /\ spacerDone)
C4_Witness ==
    ReadFailed /\ read_i = 0 /\ failKind = "second" /\ spacerCalls = 0

\* C5: a read that fails at a symbol position i >= 1, on a missing first
\* pulse, a missing second pulse or a long-short pair, has called
\* findNextSpacer, and findNextSpacer has returned, when it returns 0.
C5_ResyncAfterFirstSymbol ==
    (ReadFailed /\ read_i >= 1) => (spacerCalls = 1 /\ spacerDone)
C5_Witness ==
    ReadFailed /\ read_i = CodeLen - 1 /\ read_i >= 1 /\ failKind = "first"
        /\ spacerDone

\* the cycle is over: loop() is about to return
CycleOver == pc = "loop_end"
\* the successful attempts of the cycle
Successes == Cardinality({a \in Attempts : valid[a] = 1})

\* C6: once the first readNextCode of a cycle has failed, that cycle makes no
\* further invocation: it ends with exactly one.
C6_EarlyExit == (valid[0] = 0) => calls = 1
C6_Witness == CycleOver /\ valid[0] = 0 /\ calls = 1 /\ ~emitted

\* C7: a cycle whose first readNextCode succeeds makes exactly ResendCount
\* invocations whatever the later ones return; every cycle makes at least 1
\* and at most ResendCount.
C7_FullBudget ==
    /\ calls <= ResendCount
    /\ CycleOver => calls >= 1
    /\ (CycleOver /\ valid[0] = 1) => calls = ResendCount
C7_Witness ==
    /\ CycleOver
    /\ valid[0] = 1
    /\ valid[1] = 0
    /\ valid[2] = 1
    /\ calls = ResendCount

Voted == pc \in {"emit", "quiet"} \/ (pc = "loop_end" /\ emitted)
\* occurrences of symbol s at position j among the valid attempts
TallyOf(j, s) == Cardinality({a \in Attempts : valid[a] = 1 /\ codes[a][j] = s})

\* C9: at every position the counts are those of the valid attempts only, and
\* the symbol voted is ZERO iff c0 > c1 and c0 > cF, otherwise ONE iff
\* c1 > cF, otherwise F.
C9_TieBreak ==
    Voted =>
        \A j \in Positions :
            LET c0 == TallyOf(j, "0")
                c1 == TallyOf(j, "1")
                cF == TallyOf(j, "F")
            IN /\ majority[j] = [k \in 0 .. 2 |->
                                    IF k = 0 THEN c0 ELSE IF k = 1 THEN c1 ELSE cF]
               /\ (result[j] = "0") <=> (c0 > c1 /\ c0 > cF)
               /\ (result[j] = "1") <=> (~(c0 > c1 /\ c0 > cF) /\ c1 > cF)
               /\ (result[j] = "F") <=> (~(c0 > c1 /\ c0 > cF) /\ ~(c1 > cF))
C9_Witness ==
    /\ Voted
    /\ \E a \in Attempts : valid[a] = 0 /\ codes[a][0] = "1"
    /\ TallyOf(0, "1") = 2
    /\ TallyOf(0, "F") = 2
    /\ result[0] = "F"

\* the valid attempts in order, and their symbols at position j
ValidAttempts ==
    SelectSeq([k \in 1 .. ResendCount |-> k - 1], LAMBDA a : valid[a] = 1)
ValidColumn(j) == [k \in 1 .. Len(ValidAttempts) |-> codes[ValidAttempts[k]][j]]

\* C10 (as claimed): valid attempts holding 0,0,0,1,F at position 0 vote ZERO,
\* 1,1,F,F,0 vote ONE, and F,F,0,1 vote F.
C10_ExamplesAsClaimed ==
    Voted =>
        /\ ValidColumn(0) = <<"0", "0", "0", "1", "F">> => result[0] = "0"
        /\ ValidColumn(0) = <<"1", "1", "F", "F", "0">> => result[0] = "1"
        /\ ValidColumn(0) = <<"F", "F", "0", "1">> => result[0] = "F"

\* C10 (amended): valid attempts holding 0,0,0,1,F at position 0 vote ZERO,
\* 1,1,F,F,0 vote F (ONE does not strictly exceed F), and F,F,0,1 vote F.
C10_Examples ==
    Voted =>
        /\ ValidColumn(0) = <<"0", "0", "0", "1", "F">> => result[0] = "0"
        /\ ValidColumn(0) = <<"1", "1", "F", "F", "0">> => result[0] = "F"
        /\ ValidColumn(0) = <<"F", "F", "0", "1">> => result[0] = "F"
C10_Witness ==
    Voted /\ ValidColumn(0) = <<"1", "1", "F", "F", "0">> /\ result[0] = "F"

\* findNextSpacer is sampling the line
Sampling == pc = "spacer_loop"
\* findNextSpacer has returned to readNextCode, which returns 0
SpacerReturned == pc = "ret" /\ spacerDone

\* C11 (as claimed): whatever the line does, findNextSpacer takes at most
\* ResyncTimeout / measure_delay = TimeoutSamples samples before it returns,
\* with time and total_time held in ints of the target's width.
C11_ResyncBound == (Sampling \/ SpacerReturned) => samples <= TimeoutSamples

Complete(b) == b[CodeLen] = "NUL" /\ \A j \in Positions : b[j] \in Symbols

\* C13: when readNextCode returns 1 its buffer holds CodeLen symbols, each of
\* ZERO, ONE, F; so does every attempt recorded as valid and every result
\* printed: the marker X of a long-short pair is in none of them.
C13_CompletedCode ==
    /\ (pc = "ret" /\ ret = 1) => Complete(buf)
    /\ \A a \in Attempts : valid[a] = 1 => Complete(codes[a])
    /\ Voted => Complete(result)
C13_Witness ==
    /\ pc = "quiet"
    /\ \E a \in Attempts : valid[a] = 0 /\ codes[a][0] = "X"
    /\ Complete(result)

\* C14: in every state, at every position, each of the three counts of the
\* tally is at most the number of valid attempts of the cycle, so at most
\* ResendCount, which an unsigned 8-bit cell holds.
C14_TallyBound ==
    \A j \in Positions : \A k \in 0 .. 2 :
        /\ majority[j][k] <= Successes
        /\ majority[j][k] <= ResendCount
        /\ ResendCount < 256
C14_Witness ==
    /\ pc = "tally"
    /\ loop_i = ResendCount
    /\ Successes = ResendCount - 1
    /\ majority[0][2] = Successes
    /\ majority[1][2] < Successes

\* C15 (as claimed): whatever the pulses and the line do, every cycle ends
\* and the next one begins: loop() is entered again and again.
C15_Progress == []<>(pc = "loop")

\* the three counts of position j over the valid attempts of this cycle
CycleTally(j) ==
    [k \in 0 .. 2 |->
        TallyOf(j, IF k = 0 THEN "0" ELSE IF k = 1 THEN "1" ELSE "F")]

\* C16: the voter reads no flag and no symbol that a readNextCode of the
\* current cycle has not written (the arrays of loop() are not cleared); the
\* tally is zero until the voter starts; the result printed is the vote over
\* the attempts of that cycle alone.
C16_NoLeak ==
    /\ ~uninit_read
    /\ pc \in {"tally", "emit", "quiet"} =>
            \A a \in Attempts :
                /\ valid[a] \in {0, 1}
                /\ valid[a] = 1 => Complete(codes[a])
    /\ pc \notin {"loop", "tally", "emit", "quiet", "loop_end"} =>
            \A j \in Positions : \A k \in 0 .. 2 : majority[j][k] = 0
    /\ Voted => \A j \in Positions : result[j] = Winner(CycleTally(j))
C16_Witness ==
    /\ pc = "quiet"
    /\ \E a \in Attempts : valid[a] = 0 /\ codes[a][0] = "U"
    /\ ~uninit_read

\* the pulse lengths as the comments of lines 45-51 put them
StrictShort(d) == d > short_min /\ d < long_min
StrictLong(d) == d > long_min
\* the symbol position just processed, and what the buffer holds there
LastPos == IF outcome \in Symbols THEN read_i - 1 ELSE read_i
\* both pulses of the position just processed were measured
PairMeasured == Processed /\ failKind # "first"

\* C17: with SHORT a pulse longer than short_min and shorter than long_min
\* and LONG a pulse longer than long_min, readNextCode stores '0' for a pair
\* (SHORT, SHORT), '1' for (LONG, LONG), 'F' for (SHORT, LONG), and gives the
\* read up at a pair (LONG, SHORT).
C17_StrictPairs ==
    PairMeasured =>
        /\ (StrictShort(first) /\ StrictShort(second))
                => (outcome = "0" /\ buf[LastPos] = "0")
        /\ (StrictLong(first) /\ StrictLong(second))
                => (outcome = "1" /\ buf[LastPos] = "1")
        /\ (StrictShort(first) /\ StrictLong(second))
                => (outcome = "F" /\ buf[LastPos] = "F")
        /\ (StrictLong(first) /\ StrictShort(second))
                => (outcome = "INVALID" /\ failKind = "pair"
                    /\ buf[LastPos] = "X" /\ pc = "spacer_call")
C17_Witness ==
    /\ PairMeasured
    /\ StrictLong(first)
    /\ StrictShort(second)
    /\ failKind = "pair"
    /\ read_i = 1
    /\ buf[0] = "F"

\* C18: the low-duration counter of findNextSpacer is measure_delay times
\* the number of LOW samples since the last HIGH one (a HIGH sample sets it
\* to zero, a LOW sample adds measure_delay); findNextSpacer takes no further
\* sample once the line has been LOW for SpacerSamples samples in a row, and
\* it does not return before that unless TimeoutSamples samples were taken.
C18_SpacerSampling ==
    /\ Sampling => (time = lowRun * measure_delay /\ lowRun <= SpacerSamples)
    /\ (Sampling /\ lowRun = SpacerSamples)
            => (ENABLED SpacerReturn /\ ~ENABLED SpacerSample)
    /\ (Sampling /\ lowRun < SpacerSamples /\ samples < TimeoutSamples)
            => (ENABLED SpacerSample /\ ~ENABLED SpacerReturn)
    /\ SpacerReturned => (lowRun = SpacerSamples \/ samples >= TimeoutSamples)
C18_Witness ==
    SpacerReturned /\ lowRun = SpacerSamples /\ samples = SpacerSamples + 2

\* the tallies a position can have
Tallies == [0 .. 2 -> 0 .. ResendCount]
\* symbol s is not out-voted in tally m
NotOutVoted(s, m) == \A k \in 0 .. 2 : m[Column(s)] >= m[k]

\* C19: the symbol voted at a position has a count at least as large as the
\* counts of the two other symbols, in every result printed and for every
\* tally whatever.
C19_NeverOutVoted ==
    /\ Voted => \A j \in Positions : NotOutVoted(result[j], majority[j])
    /\ \A m \in Tallies : NotOutVoted(Winner(m), m)
C19_Witness ==
    /\ Voted
    /\ majority[0] = [k \in 0 .. 2 |-> IF k = 1 THEN 1 ELSE 2]
    /\ result[0] = "F"

\* readNextCode is running or has just returned
InRead ==
    pc \in {"read_first", "read_second", "spacer_call", "spacer_loop", "ret"}

\* C20: one readNextCode measures two pulses for every symbol it decodes
\* (2 * CodeLen when it returns 1), one pulse only at a position whose first
\* pulse is NONE, and two at a position that fails otherwise; it calls
\* findNextSpacer at most once, and not at all when it returns 1.
C20_PulsesAndResyncs ==
    InRead =>
        /\ pc = "read_first" => pulses = 2 * read_i
        /\ pc = "read_second" =>
                (pulses = 2 * read_i + 1 /\ classify(first) # "NONE")
        /\ (pc = "ret" /\ ret = 1) => (pulses = 2 * CodeLen /\ spacerCalls = 0)
        /\ failKind = "first" => pulses = 2 * read_i + 1
        /\ failKind \in {"second", "pair"} => pulses = 2 * read_i + 2
        /\ spacerCalls <= 1
        /\ spacerCalls = 1 => failKind # "none"
C20_Witness ==
    /\ SpacerReturned
    /\ failKind = "first"
    /\ read_i = 1
    /\ pulses = 3
    /\ spacerCalls = 1

====
